---- MODULE Spec2Model ----
(***************************************************************************)
(* Model of the grid backtest engine run_strategy_logic of                 *)
(* a股非对称牛市网格策略.py.                                                  *)
(*                                                                         *)
(* The engine computes in IEEE-754 binary64 (numpy float64 and Python      *)
(* float).  The arithmetic below is binary64 arithmetic: every operation   *)
(* is the exact result rounded to 53 significant bits, ties to even, with  *)
(* the infinities and NaN that numpy produces on a division by zero.       *)
(* TLC's integers are 32 bits wide, so significands are kept as sequences  *)
(* of 15-bit limbs, least significant first.                               *)
(* Exponent overflow and subnormals are not modelled: no value of the      *)
(* model comes within 2^900 of either end of the exponent range.           *)
(***************************************************************************)
EXTENDS Integers, Sequences, FiniteSets

\* ------------------------------------------------------------------------
\* Natural numbers of arbitrary size: sequences of limbs, least significant
\* first, without leading zero limbs; <<>> is 0.
\* ------------------------------------------------------------------------

LimbBits == 15

Base == 32768

Pow2(n) == 2 ^ n

RECURSIVE BNorm(_)
BNorm(a) ==
  IF a = <<>> THEN a
  ELSE IF a[Len(a)] = 0 THEN BNorm(SubSeq(a, 1, Len(a) - 1))
  ELSE a

RECURSIVE BFromInt(_)
BFromInt(n) == IF n = 0 THEN <<>> ELSE <<n % Base>> \o BFromInt(n \div Base)

RECURSIVE BAddC(_, _, _)
BAddC(a, b, c) ==
  IF a = <<>> /\ b = <<>> THEN (IF c = 0 THEN <<>> ELSE <<c>>)
  ELSE LET x == IF a = <<>> THEN 0 ELSE Head(a)
           y == IF b = <<>> THEN 0 ELSE Head(b)
           t == x + y + c
       IN <<t % Base>> \o BAddC(IF a = <<>> THEN a ELSE Tail(a),
                                IF b = <<>> THEN b ELSE Tail(b),
                                t \div Base)

BAdd(a, b) == BAddC(a, b, 0)

\* a - b - c for a >= b + c, before normalisation.
RECURSIVE BSubC(_, _, _)
BSubC(a, b, c) ==
  IF a = <<>> THEN <<>>
  ELSE LET y == IF b = <<>> THEN 0 ELSE Head(b)
           t == Head(a) - y - c
       IN <<IF t < 0 THEN t + Base ELSE t>>
          \o BSubC(Tail(a), IF b = <<>> THEN b ELSE Tail(b),
                   IF t < 0 THEN 1 ELSE 0)

BSub(a, b) == BNorm(BSubC(a, b, 0))

\* The order of a and b at and below limb i, for Len(a) = Len(b).
RECURSIVE BCmpFrom(_, _, _)
BCmpFrom(a, b, i) ==
  IF i = 0 THEN 0
  ELSE IF a[i] < b[i] THEN -1
  ELSE IF a[i] > b[i] THEN 1
  ELSE BCmpFrom(a, b, i - 1)

BCmp(a, b) ==
  IF Len(a) < Len(b) THEN -1
  ELSE IF Len(a) > Len(b) THEN 1
  ELSE BCmpFrom(a, b, Len(a))

\* a * k + c for 0 <= k, c < Base.
RECURSIVE BMulSmallC(_, _, _)
BMulSmallC(a, k, c) ==
  IF a = <<>> THEN (IF c = 0 THEN <<>> ELSE <<c>>)
  ELSE LET t == Head(a) * k + c
       IN <<t % Base>> \o BMulSmallC(Tail(a), k, t \div Base)

BMulSmall(a, k) == IF k = 0 THEN <<>> ELSE BMulSmallC(a, k, 0)

BShiftLimbs(a, n) ==
  IF a = <<>> THEN a ELSE [j \in 1..n |-> 0] \o a

RECURSIVE BMul(_, _)
BMul(a, b) ==
  IF a = <<>> \/ b = <<>> THEN <<>>
  ELSE BAdd(BMulSmall(a, Head(b)), BShiftLimbs(BMul(a, Tail(b)), 1))

\* a \div k for 0 < k < Base, limbs i..1 with rem carried in from above.
RECURSIVE BDivSmallFrom(_, _, _, _)
BDivSmallFrom(a, k, i, rem) ==
  IF i = 0 THEN <<>>
  ELSE LET t == rem * Base + a[i]
       IN Append(BDivSmallFrom(a, k, i - 1, t % k), t \div k)

BDivSmall(a, k) == BNorm(BDivSmallFrom(a, k, Len(a), 0))

RECURSIVE BModSmallFrom(_, _, _, _)
BModSmallFrom(a, k, i, rem) ==
  IF i = 0 THEN rem
  ELSE BModSmallFrom(a, k, i - 1, (rem * Base + a[i]) % k)

BModSmall(a, k) == BModSmallFrom(a, k, Len(a), 0)

BShl(a, n) == BShiftLimbs(BMulSmall(a, Pow2(n % LimbBits)), n \div LimbBits)

BShr(a, n) ==
  LET d == n \div LimbBits
  IN IF d >= Len(a) THEN <<>>
     ELSE BDivSmall(SubSeq(a, d + 1, Len(a)), Pow2(n % LimbBits))

RECURSIVE IntBitLen(_)
IntBitLen(n) == IF n = 0 THEN 0 ELSE 1 + IntBitLen(n \div 2)

BBitLen(a) ==
  IF a = <<>> THEN 0 ELSE LimbBits * (Len(a) - 1) + IntBitLen(a[Len(a)])

BIsOdd(a) == a # <<>> /\ a[1] % 2 = 1

\* Long division, one quotient bit per step: rem < 2 * dsh, dsh = d * 2^k.
\* The result is <<quotient, remainder>>.
RECURSIVE BDivLoop(_, _, _, _)
BDivLoop(rem, dsh, k, q) ==
  LET ge == BCmp(rem, dsh) >= 0
      r1 == IF ge THEN BSub(rem, dsh) ELSE rem
      q1 == BAddC(q, q, IF ge THEN 1 ELSE 0)
  IN IF k = 0 THEN <<q1, r1>>
     ELSE IF q1 = <<>> /\ r1 = <<>> THEN <<q1, r1>>
     ELSE BDivLoop(r1, BShr(dsh, 1), k - 1, q1)

BDivMod(a, d) ==
  IF BCmp(a, d) < 0 THEN <<<<>>, a>>
  ELSE IF Len(d) = 1 THEN <<BDivSmall(a, d[1]), BFromInt(BModSmall(a, d[1]))>>
  ELSE LET k == BBitLen(a) - BBitLen(d)
       IN BDivLoop(a, BShl(d, k), k, <<>>)

\* ------------------------------------------------------------------------
\* binary64 values: k is "fin", "inf" or "nan"; a finite value is
\* (-1)^s * m * 2^e with m odd (or m = <<>>, e = 0 for zero), so that equal
\* values are equal records.  Zero carries no sign: the only divisions by
\* zero of the engine divide by +0.0.
\* ------------------------------------------------------------------------

MantBits == 53

FZero == [k |-> "fin", s |-> 0, m |-> <<>>, e |-> 0]

FNaN == [k |-> "nan", s |-> 0, m |-> <<>>, e |-> 0]

FInf(sign) == [k |-> "inf", s |-> sign, m |-> <<>>, e |-> 0]

IsFin(x) == x.k = "fin"

IsNaN(x) == x.k = "nan"

IsZero(x) == x.k = "fin" /\ x.m = <<>>

RECURSIVE IntTz(_)
IntTz(n) == IF n % 2 = 1 THEN 0 ELSE 1 + IntTz(n \div 2)

\* (-1)^sign * m * 2^e with the trailing zero bits of m moved into e.
RECURSIVE Canon(_, _, _)
Canon(sign, m, e) ==
  IF m = <<>> THEN FZero
  ELSE IF m[1] = 0 THEN Canon(sign, Tail(m), e + LimbBits)
  ELSE LET z == IntTz(m[1])
       IN [k |-> "fin", s |-> sign,
           m |-> IF z = 0 THEN m ELSE BShr(m, z), e |-> e + z]

\* The binary64 nearest to (-1)^sign * m * 2^e, ties to even.
Round(sign, m, e) ==
  LET len == BBitLen(m)
  IN IF len <= MantBits THEN Canon(sign, m, e)
     ELSE LET sh   == len - MantBits
              q    == BShr(m, sh)
              r    == BSub(m, BShl(q, sh))
              c    == BCmp(r, BShl(<<1>>, sh - 1))
              up   == c > 0 \/ (c = 0 /\ BIsOdd(q))
          IN Canon(sign, IF up THEN BAdd(q, <<1>>) ELSE q, e + sh)

\* float(n) of a Python int, and the float of n/2.
FromInt(n) == Canon(IF n < 0 THEN 1 ELSE 0, BFromInt(IF n < 0 THEN -n ELSE n), 0)

FromHalves(h) == Canon(IF h < 0 THEN 1 ELSE 0, BFromInt(IF h < 0 THEN -h ELSE h), -1)

FNeg(x) ==
  IF x.k = "nan" \/ IsZero(x) THEN x ELSE [x EXCEPT !.s = 1 - x.s]

Min2(a, b) == IF a < b THEN a ELSE b

FAddFin(x, y) ==
  IF x.m = <<>> THEN y
  ELSE IF y.m = <<>> THEN x
  ELSE LET e == Min2(x.e, y.e)
           A == BShl(x.m, x.e - e)
           B == BShl(y.m, y.e - e)
           c == BCmp(A, B)
       IN IF x.s = y.s THEN Round(x.s, BAdd(A, B), e)
          ELSE IF c = 0 THEN FZero
          ELSE IF c > 0 THEN Round(x.s, BSub(A, B), e)
          ELSE Round(y.s, BSub(B, A), e)

FAdd(x, y) ==
  IF x.k = "nan" \/ y.k = "nan" THEN FNaN
  ELSE IF x.k = "inf" /\ y.k = "inf" THEN (IF x.s = y.s THEN x ELSE FNaN)
  ELSE IF x.k = "inf" THEN x
  ELSE IF y.k = "inf" THEN y
  ELSE FAddFin(x, y)

FSub(x, y) == FAdd(x, FNeg(y))

SignXor(x, y) == IF x.s = y.s THEN 0 ELSE 1

FMul(x, y) ==
  IF x.k = "nan" \/ y.k = "nan" THEN FNaN
  ELSE IF x.k = "inf" \/ y.k = "inf"
       THEN (IF IsZero(x) \/ IsZero(y) THEN FNaN ELSE FInf(SignXor(x, y)))
  ELSE IF x.m = <<>> \/ y.m = <<>> THEN FZero
  ELSE Round(SignXor(x, y), BMul(x.m, y.m), x.e + y.e)

\* The quotient to 55 bits or more, with a sticky bit below it for the
\* remainder, then rounded once.
FDivFin(x, y) ==
  LET d  == MantBits + 2 + BBitLen(y.m) - BBitLen(x.m)
      sh == IF d > 0 THEN d ELSE 0
      qr == BDivMod(BShl(x.m, sh), y.m)
      q  == qr[1]
  IN Round(SignXor(x, y), BAddC(q, q, IF qr[2] = <<>> THEN 0 ELSE 1),
           x.e - y.e - sh - 1)

FDiv(x, y) ==
  IF x.k = "nan" \/ y.k = "nan" THEN FNaN
  ELSE IF x.k = "inf" THEN (IF y.k = "inf" THEN FNaN ELSE FInf(SignXor(x, y)))
  ELSE IF y.k = "inf" THEN FZero
  ELSE IF y.m = <<>> THEN (IF x.m = <<>> THEN FNaN ELSE FInf(x.s))
  ELSE IF x.m = <<>> THEN FZero
  ELSE FDivFin(x, y)

\* The order of |x| and |y| for finite nonzero x and y.
MagCmp(x, y) ==
  LET tx == BBitLen(x.m) + x.e
      ty == BBitLen(y.m) + y.e
      e  == Min2(x.e, y.e)
  IN IF tx < ty THEN -1
     ELSE IF tx > ty THEN 1
     ELSE BCmp(BShl(x.m, x.e - e), BShl(y.m, y.e - e))

Sgn(x) == IF x.m = <<>> /\ x.k = "fin" THEN 0 ELSE IF x.s = 1 THEN -1 ELSE 1

\* The order of x and y, neither a NaN: -1, 0 or 1.
FCmp(x, y) ==
  IF Sgn(x) # Sgn(y) THEN (IF Sgn(x) < Sgn(y) THEN -1 ELSE 1)
  ELSE IF Sgn(x) = 0 THEN 0
  ELSE IF x.k = "inf" \/ y.k = "inf"
       THEN (IF x.k = y.k THEN 0
             ELSE IF x.k = "inf" THEN Sgn(x) ELSE -Sgn(x))
  ELSE Sgn(x) * MagCmp(x, y)

\* Comparisons are false when either side is a NaN.
FLt(x, y) == x.k # "nan" /\ y.k # "nan" /\ FCmp(x, y) < 0

FLe(x, y) == x.k # "nan" /\ y.k # "nan" /\ FCmp(x, y) <= 0

FGt(x, y) == FLt(y, x)

FGe(x, y) == FLe(y, x)

FEq(x, y) == x.k # "nan" /\ y.k # "nan" /\ FCmp(x, y) = 0

FAbs(x) == IF x.k = "nan" THEN x ELSE [x EXCEPT !.s = 0]

\* ------------------------------------------------------------------------
\* The engine: run_strategy_logic(df, b_pct, s_pct, amt).
\* ------------------------------------------------------------------------

VARIABLES
  df,        \* the Close column handed in, in half units of currency
  b_pct,     \* buy threshold in percent (a float)
  s_pct,     \* sell threshold in percent (a float)
  amt,       \* amount per trade (a Python int)
  pc,        \* "call", "loop", "stats", "ret", "done" or "raised"
  prices,    \* df['Close'].astype(float).values
  changes,   \* the daily changes, changes[1] = 0
  cash,
  shares,
  b_cnt,
  s_cnt,
  history,   \* the equity appended after each day
  peak,      \* np.maximum.accumulate(h_arr)
  dd,        \* (h_arr - peak) / peak where it is evaluated, else <<>>
  win_rate,
  cum_ret,
  mdd,
  fmv,       \* shares * prices[-1]
  log        \* history variable: the branch taken on each day and the
             \* shares and cash it left

vars == <<df, b_pct, s_pct, amt, pc, prices, changes, cash, shares, b_cnt,
          s_cnt, history, peak, dd, win_rate, cum_ret, mdd, fmv, log>>

\* Bounds of the inputs explored: the length of a series, of a series with
\* prices or parameters out of range, and of a series of the deep runs.
MaxLen == 4

MaxBadLen == 2

MaxDeepLen == 5

\* Close prices 86, 99, 100, 100.5 and 102, in halves.
PriceSet == {172, 198, 200, 201, 204}

\* Prices a data source must not deliver, 0 and -5, beside 99 and 100.
BadSeriesPrices == {198, 200, 0, -10}

\* Thresholds in halves of a percent: 1.0; 0.5 and 1.5.
BuyPcts == {2}

SellPcts == {1, 3}

Amts == {1000}

BadAmts == {0, -1000}

SeqsUpTo(S, n) == UNION {[1..k -> S] : k \in 0..n}

ValidParams(b, s, a) == FGt(b, FZero) /\ FGt(s, FZero) /\ a > 0

ValidSeries(d) == Len(d) >= 1 /\ \A j \in 1..Len(d) : d[j] > 0

ValidInput == ValidParams(b_pct, s_pct, amt) /\ ValidSeries(df)

\* The state at the call, before line 80.
AtCall ==
  /\ pc = "call"
  /\ prices = <<>>
  /\ changes = <<>>
  /\ cash = FZero
  /\ shares = FZero
  /\ b_cnt = 0
  /\ s_cnt = 0
  /\ history = <<>>
  /\ peak = <<>>
  /\ dd = <<>>
  /\ win_rate = FZero
  /\ cum_ret = FZero
  /\ mdd = FZero
  /\ fmv = FZero
  /\ log = <<>>

Init ==
  /\ \/ /\ df \in SeqsUpTo(PriceSet, MaxLen)
        /\ b_pct \in {FromHalves(h) : h \in BuyPcts}
        /\ s_pct \in {FromHalves(h) : h \in SellPcts}
        /\ amt \in Amts
     \/ /\ df \in SeqsUpTo(BadSeriesPrices, MaxBadLen)
        /\ b_pct \in {FromHalves(h) : h \in BuyPcts \cup {0}}
        /\ s_pct \in {FromHalves(h) : h \in {3, 0}}
        /\ amt \in Amts \cup BadAmts
  /\ AtCall

\* Longer series, with the lower sell threshold only.
InitDeep ==
  /\ df \in SeqsUpTo(PriceSet, MaxDeepLen)
  /\ b_pct \in {FromHalves(h) : h \in BuyPcts}
  /\ s_pct = FromHalves(1)
  /\ amt \in Amts
  /\ AtCall

\* Changes without the leading 0 that np.insert puts in.
ChangesNoPad(p) ==
  [j \in 1..(Len(p) - 1) |-> FDiv(FSub(p[j + 1], p[j]), p[j])]

\* np.insert(np.diff(prices) / prices[:-1], 0, 0): one entry more than the
\* differences, so a single entry for an empty series too.
Changes(p) ==
  <<FZero>> \o [j \in 1..(Len(p) - 1) |-> FDiv(FSub(p[j + 1], p[j]), p[j])]

\* Lines 80-84.
Prepare ==
  /\ pc = "call"
  /\ prices' = [j \in 1..Len(df) |-> FromHalves(df[j])]
  /\ changes' = Changes(prices')
  /\ cash' = FZero
  /\ shares' = FZero
  /\ b_cnt' = 0
  /\ s_cnt' = 0
  /\ history' = <<>>
  /\ pc' = "loop"
  /\ UNCHANGED <<df, b_pct, s_pct, amt, peak, dd, win_rate, cum_ret, mdd, fmv,
                 log>>

\* zip(prices, changes) stops with the shorter of the two.
Days == Min2(Len(prices), Len(changes))

\* The day the loop is about to process.
Day == Len(history) + 1

\* BuySignal with a strict comparison.
BuySignalStrict(c) == FLt(c, FDiv(FNeg(b_pct), FromInt(100)))

\* c <= -b_pct/100
BuySignal(c) == FLe(c, FDiv(FNeg(b_pct), FromInt(100)))

\* c >= s_pct/100 and shares > 0
SellSignal(c) == FGe(c, FDiv(s_pct, FromInt(100))) /\ FGt(shares, FZero)

\* Python's min(a, b): b when b < a, else a.
PyMin(a, b) == IF FLt(b, a) THEN b ELSE a

\* val = min(amt, shares * p)
SellValue(p) == PyMin(FromInt(amt), FMul(shares, p))

\* shares += amt / p
BuyShares(p) == FAdd(shares, FDiv(FromInt(amt), p))

\* cash -= amt
BuyCash == FSub(cash, FromInt(amt))

\* SellShares taking the whole amount instead of the capped value.
SellSharesUncapped(p) == FSub(shares, FDiv(FromInt(amt), p))

\* shares -= val / p
SellShares(p) == FSub(shares, FDiv(SellValue(p), p))

\* cash += val
SellCash(p) == FAdd(cash, SellValue(p))

\* Equity of the state before the day's trade.
EquityStale(sh, p, ca) == FAdd(FMul(shares, p), cash)

\* shares * p + cash
Equity(sh, p, ca) == FAdd(FMul(sh, p), ca)

Logged(a) == Append(log, [act |-> a, shares |-> shares', cash |-> cash'])

\* Lines 87-90 and 96.
Buy ==
  /\ pc = "loop" /\ Day <= Days
  /\ BuySignal(changes[Day])
  /\ shares' = BuyShares(prices[Day])
  /\ cash' = BuyCash
  /\ b_cnt' = b_cnt + 1
  /\ history' = Append(history, Equity(shares', prices[Day], cash'))
  /\ log' = Logged("buy")
  /\ UNCHANGED <<df, b_pct, s_pct, amt, pc, prices, changes, s_cnt, peak, dd,
                 win_rate, cum_ret, mdd, fmv>>

\* Lines 91-96.
Sell ==
  /\ pc = "loop" /\ Day <= Days
  /\ ~BuySignal(changes[Day])
  /\ SellSignal(changes[Day])
  /\ shares' = SellShares(prices[Day])
  /\ cash' = SellCash(prices[Day])
  /\ s_cnt' = s_cnt + 1
  /\ history' = Append(history, Equity(shares', prices[Day], cash'))
  /\ log' = Logged("sell")
  /\ UNCHANGED <<df, b_pct, s_pct, amt, pc, prices, changes, b_cnt, peak, dd,
                 win_rate, cum_ret, mdd, fmv>>

\* Line 96 on a day with neither signal.
Hold ==
  /\ pc = "loop" /\ Day <= Days
  /\ ~BuySignal(changes[Day])
  /\ ~SellSignal(changes[Day])
  /\ history' = Append(history, Equity(shares, prices[Day], cash))
  /\ UNCHANGED <<cash, shares>>
  /\ log' = Logged("hold")
  /\ UNCHANGED <<df, b_pct, s_pct, amt, pc, prices, changes, b_cnt, s_cnt,
                 peak, dd, win_rate, cum_ret, mdd, fmv>>

\* The loop of line 86 is exhausted.
EndLoop ==
  /\ pc = "loop" /\ Day > Days
  /\ pc' = "stats"
  /\ UNCHANGED <<df, b_pct, s_pct, amt, prices, changes, cash, shares, b_cnt,
                 s_cnt, history, peak, dd, win_rate, cum_ret, mdd, fmv, log>>

\* np.maximum: a NaN on either side gives NaN.
NpMaximum(x, y) ==
  IF x.k = "nan" \/ y.k = "nan" THEN FNaN ELSE IF FLt(x, y) THEN y ELSE x

\* np.maximum.accumulate(h)
RECURSIVE Accumulate(_)
Accumulate(h) ==
  IF Len(h) <= 1 THEN h
  ELSE LET front == Accumulate(SubSeq(h, 1, Len(h) - 1))
       IN Append(front, NpMaximum(front[Len(front)], h[Len(h)]))

\* peak.any(): some entry is not zero (a NaN is not zero).
PeakAny(pk) == \E j \in 1..Len(pk) : ~IsZero(pk[j])

\* (h_arr - peak) / peak, entry by entry.
Drawdowns(h, pk) == [j \in 1..Len(h) |-> FDiv(FSub(h[j], pk[j]), pk[j])]

\* np.nanmax in the place of np.nanmin.
RECURSIVE NanMax(_)
NanMax(a) ==
  IF a = <<>> THEN FNaN
  ELSE LET rest == NanMax(Tail(a))
       IN IF Head(a).k = "nan" THEN rest
          ELSE IF rest.k = "nan" THEN Head(a)
          ELSE IF FGt(rest, Head(a)) THEN rest ELSE Head(a)

\* np.nanmin: the least entry that is not a NaN, NaN when there is none.
RECURSIVE NanMin(_)
NanMin(a) ==
  IF a = <<>> THEN FNaN
  ELSE LET rest == NanMin(Tail(a))
       IN IF Head(a).k = "nan" THEN rest
          ELSE IF rest.k = "nan" THEN Head(a)
          ELSE IF FLt(rest, Head(a)) THEN rest ELSE Head(a)

\* (np.diff(h_arr) > 0).mean() if len(h_arr) > 1 else 0
WinRate(h) ==
  IF Len(h) > 1
  THEN FDiv(FromInt(Cardinality({j \in 1..(Len(h) - 1) :
                                   FGt(FSub(h[j + 1], h[j]), FZero)})),
            FromInt(Len(h) - 1))
  ELSE FZero

\* total_inv = b_cnt * amt
TotalInv == b_cnt * amt

\* CumRet dividing by max(total_inv, 1) instead of falling back to 0.
CumRetFloorOne(h) ==
  IF Len(h) = 0 THEN FZero
  ELSE FSub(FDiv(h[Len(h)], FromInt(IF TotalInv > 0 THEN TotalInv ELSE 1)),
            FromInt(1))

\* (h_arr[-1] / total_inv - 1) if total_inv > 0 else 0
CumRet(h) ==
  IF TotalInv > 0
  THEN FSub(FDiv(h[Len(h)], FromInt(TotalInv)), FromInt(1))
  ELSE FZero

\* np.nanmin((h_arr - peak) / peak) if peak.any() else 0
MaxDrawdown(h, pk) == IF PeakAny(pk) THEN NanMin(Drawdowns(h, pk)) ELSE FZero

\* Lines 99-104.
Stats ==
  /\ pc = "stats"
  /\ win_rate' = WinRate(history)
  /\ cum_ret' = CumRet(history)
  /\ peak' = Accumulate(history)
  /\ dd' = IF PeakAny(peak') THEN Drawdowns(history, peak') ELSE <<>>
  /\ mdd' = MaxDrawdown(history, peak')
  /\ pc' = "ret"
  /\ UNCHANGED <<df, b_pct, s_pct, amt, prices, changes, cash, shares, b_cnt,
                 s_cnt, history, fmv, log>>

\* Line 106 for a series with a last price.
Return ==
  /\ pc = "ret"
  /\ Len(prices) > 0
  /\ fmv' = FMul(shares, prices[Len(prices)])
  /\ pc' = "done"
  /\ UNCHANGED <<df, b_pct, s_pct, amt, prices, changes, cash, shares, b_cnt,
                 s_cnt, history, peak, dd, win_rate, cum_ret, mdd, log>>

\* Line 106 for an empty series: prices[-1] raises IndexError.
RaiseIndexError ==
  /\ pc = "ret"
  /\ Len(prices) = 0
  /\ pc' = "raised"
  /\ UNCHANGED <<df, b_pct, s_pct, amt, prices, changes, cash, shares, b_cnt,
                 s_cnt, history, peak, dd, win_rate, cum_ret, mdd, fmv, log>>

Next ==
  \/ Prepare
  \/ Buy
  \/ Sell
  \/ Hold
  \/ EndLoop
  \/ Stats
  \/ Return
  \/ RaiseIndexError

Spec == Init /\ [][Next]_vars

SpecDeep == InitDeep /\ [][Next]_vars

\* ------------------------------------------------------------------------
\* Properties.
\* ------------------------------------------------------------------------

\* The statistics of lines 99-104 have been computed.
Finished == pc \in {"ret", "done"}

Acts(a) == {i \in 1..Len(log) : log[i].act = a}

\* Day i sells a position worth no more than amt: val is the whole position.
Liquidating(i) == FLe(FMul(log[i - 1].shares, prices[i]), FromInt(amt))

\* C1: on valid input the share count left by every processed day is >= 0.
C1_SharesNeverNegative ==
  ValidInput => \A i \in 1..Len(log) : FGe(log[i].shares, FZero)

\* C2: on an empty series, a price <= 0, or an amount or threshold <= 0 the
\* engine produces no trajectory and returns no result.
C2_InvalidInputRejected ==
  ~ValidInput => (history = <<>> /\ pc # "done")

\* C3: on valid input the drawdown step never divides by a running peak of
\* 0, and maxDrawdown is a finite number.
C3_NoZeroPeakDivision ==
  (ValidInput /\ Finished) =>
    /\ \A j \in 1..Len(dd) : ~IsZero(peak[j])
    /\ IsFin(mdd)

\* The trajectory never dips below its running high.
NeverDips ==
  \A i \in 1..Len(history) : \A j \in 1..i : FGe(history[i], history[j])

\* No equity value is positive: the running peak is 0 throughout.
PeakAlwaysZero == \A i \in 1..Len(history) : FLe(history[i], FZero)

\* C4 as stated: on valid input maxDrawdown is <= 0, and it is 0 if and only
\* if the trajectory never dips below its running high.
C4_ZeroIffNeverDips ==
  (ValidInput /\ Finished) =>
    /\ FLe(mdd, FZero)
    /\ FEq(mdd, FZero) <=> NeverDips

\* C4 as amended: on valid input maxDrawdown is <= 0, and it is 0 if and
\* only if the trajectory never dips below its running high or no equity
\* value is positive (the running peak is 0 throughout).
C4_ZeroIffNeverDipsOrZeroPeak ==
  (ValidInput /\ Finished) =>
    /\ FLe(mdd, FZero)
    /\ FEq(mdd, FZero) <=> (NeverDips \/ PeakAlwaysZero)

\* A finished run that reports a drawdown of 0 although equity fell.
C4_Witness ==
  ValidInput /\ pc = "done" /\ FEq(mdd, FZero) /\ ~NeverDips /\ b_cnt > 1

\* C5: on valid input the trajectory has one entry per observation, and
\* entry i is shares * price[i] + cash of the state day i's decision left.
C5_TrajectoryPostTrade ==
  ValidInput =>
    /\ Len(history) <= Len(df)
    /\ pc \in {"stats", "ret", "done"} => Len(history) = Len(df)
    /\ \A i \in 1..Len(history) :
         history[i] = FAdd(FMul(log[i].shares, prices[i]), log[i].cash)

\* A finished run of full length that bought, sold and held.
C5_Witness ==
  /\ ValidInput /\ pc = "done" /\ Len(history) = MaxLen
  /\ Acts("buy") # {} /\ Acts("sell") # {} /\ Acts("hold") # {}

\* C6: on valid input day 0 never trades: after it both counters, cash,
\* shares and equity[0] are 0; a series of one observation returns, with no
\* trades, trajectory [0] and cumulativeReturn, winRate and maxDrawdown 0.
C6_DayZeroNeverTrades ==
  ValidInput =>
    /\ Len(log) >= 1 =>
         /\ log[1].act = "hold"
         /\ IsZero(log[1].shares) /\ IsZero(log[1].cash)
         /\ IsZero(history[1])
    /\ Len(history) = 1 =>
         b_cnt = 0 /\ s_cnt = 0 /\ IsZero(cash) /\ IsZero(shares)
    /\ Len(df) = 1 =>
         /\ pc # "raised"
         /\ pc = "ret" => ENABLED Return
         /\ pc = "done" =>
              /\ history = <<FZero>>
              /\ b_cnt = 0 /\ s_cnt = 0
              /\ IsZero(cum_ret) /\ IsZero(win_rate) /\ IsZero(mdd)

\* A series of one observation has returned.
C6_Witness == ValidInput /\ Len(df) = 1 /\ pc = "done"

\* C7: on valid input cumulativeReturn is E[N-1] / (buyCount * tradeAmount)
\* - 1 when buyCount * tradeAmount > 0, and 0 otherwise.
C7_CumulativeReturn ==
  (ValidInput /\ Finished) =>
    IF b_cnt * amt > 0
    THEN cum_ret = FSub(FDiv(history[Len(history)], FromInt(b_cnt * amt)),
                        FromInt(1))
    ELSE IsZero(cum_ret)

\* A finished run over several days in which no buy triggered.
C7_Witness == ValidInput /\ Finished /\ b_cnt = 0 /\ Len(df) = MaxLen

\* The documented example: [100, 99, 100.5, 102], 1.0 %, 1.5 %, 1000.
IsExample ==
  /\ df = <<200, 198, 201, 204>>
  /\ b_pct = FromHalves(2)
  /\ s_pct = FromHalves(3)
  /\ amt = 1000

\* The example's days 0, 2 and 3 and its final figures.
ExampleRest ==
  /\ Len(log) >= 1 => log[1].act = "hold" /\ IsZero(history[1])
  /\ Len(log) >= 2 => log[2].act = "buy" /\ log[2].cash = FromInt(-1000)
  /\ Len(log) >= 3 =>
       /\ log[3].act = "sell"
       /\ IsZero(log[3].cash)
       /\ log[3].shares = FSub(FDiv(FromInt(1000), FromInt(99)),
                               FDiv(FromInt(1000), FromHalves(201)))
       /\ FGt(log[3].shares, FZero)
       /\ history[3] = FMul(log[3].shares, FromHalves(201))
  /\ Len(log) >= 4 => log[4].act = "hold" /\ log[4] = [log[3] EXCEPT !.act = "hold"]
  /\ Finished =>
       /\ b_cnt = 1 /\ s_cnt = 1 /\ TotalInv = 1000
       /\ cum_ret = FSub(FDiv(history[4], FromInt(1000)), FromInt(1))
       /\ FGt(cum_ret, FDiv(FromInt(-985), FromInt(1000)))
       /\ FLt(cum_ret, FDiv(FromInt(-984), FromInt(1000)))

\* C8 as stated: the example holds on day 0, buys on day 1 leaving equity 0,
\* sells 1000 on day 2, holds on day 3 and ends with one buy, one sell,
\* 1000 invested and a cumulative return of about -0.9845.
C8_Example ==
  IsExample => (ExampleRest /\ (Len(log) >= 2 => IsZero(history[2])))

\* -2^-43, about -1.1368683772161603e-13.
Day1Equity == [k |-> "fin", s |-> 1, m |-> <<1>>, e |-> -43]

\* C8 as amended: as stated, but the equity after the buy of day 1 is
\* -2^-43 (about -1.14e-13), the rounding error of (1000/99)*99, not 0.
C8_ExampleRounded ==
  IsExample => (ExampleRest /\ (Len(log) >= 2 => history[2] = Day1Equity))

\* The example has run to its end.
C8_Witness == IsExample /\ pc = "done"

\* C9: on valid input a sell happens only on a day that starts with shares
\* > 0; no sell precedes the first buy; and after a sell of a position worth
\* no more than tradeAmount no sell follows until a later buy.
C9_NoSellWithoutPosition ==
  ValidInput =>
    /\ \A i \in Acts("sell") : i >= 2 /\ FGt(log[i - 1].shares, FZero)
    /\ \A i \in Acts("sell") : \E j \in Acts("buy") : j < i
    /\ s_cnt > 0 => b_cnt > 0
    /\ \A i \in Acts("sell") : \A j \in Acts("sell") :
         (i < j /\ Liquidating(i)) => \E n \in Acts("buy") : i < n /\ n < j

\* 2^-49
Eps == [k |-> "fin", s |-> 0, m |-> <<1>>, e |-> -49]

\* equity[i] - equity[i-1] - shares[i-1] * (price[i] - price[i-1])
NeutralityGap(i) ==
  FSub(FSub(history[i], history[i - 1]),
       FMul(log[i - 1].shares, FSub(prices[i], prices[i - 1])))

\* |cash[i]| + |cash[i-1]| + |shares[i]| * price[i]
\* + |shares[i-1]| * (price[i-1] + price[i]) + tradeAmount
Magnitude(i) ==
  FAdd(FAdd(FAdd(FAbs(log[i].cash), FAbs(log[i - 1].cash)),
            FAdd(FMul(FAbs(log[i].shares), prices[i]),
                 FMul(FAbs(log[i - 1].shares),
                      FAdd(prices[i - 1], prices[i])))),
       FromInt(amt))

CashBounds ==
  /\ FLe(FromInt(-(b_cnt * amt)), cash)
  /\ FLe(cash, FromInt((s_cnt - b_cnt) * amt))

\* C10 as stated: on valid input equity[i] - equity[i-1] = shares[i-1] *
\* (price[i] - price[i-1]) on every day i >= 1, so equity is unchanged
\* across a day that starts with zero shares, and -buyCount * tradeAmount
\* <= cash <= (sellCount - buyCount) * tradeAmount.
C10_EquityNeutral ==
  ValidInput =>
    /\ \A i \in 2..Len(history) : IsZero(NeutralityGap(i))
    /\ \A i \in 2..Len(history) :
         IsZero(log[i - 1].shares) => history[i] = history[i - 1]
    /\ CashBounds

\* C10 as amended: the two sides differ by at most 2^-49 * (|cash[i]| +
\* |cash[i-1]| + |shares[i]| * price[i] + |shares[i-1]| * (price[i-1] +
\* price[i]) + tradeAmount); equity is unchanged across a day that starts
\* with zero shares and does not buy; the bounds on cash hold as stated.
C10_EquityNeutralUpToRounding ==
  ValidInput =>
    /\ \A i \in 2..Len(history) :
         FLe(FAbs(NeutralityGap(i)), FMul(Eps, Magnitude(i)))
    /\ \A i \in 2..Len(history) :
         (IsZero(log[i - 1].shares) /\ log[i].act # "buy")
           => history[i] = history[i - 1]
    /\ CashBounds

\* A day that traded and left the two sides differing by a rounding error.
C10_Witness ==
  /\ ValidInput
  /\ \E i \in 2..Len(history) :
       log[i].act = "sell" /\ ~IsZero(NeutralityGap(i))

====
